---- MODULE Spec2Model ----
(***************************************************************************)
(* Version Manager of the commands repository (src/version_manager.py):    *)
(* the metadata store, the command files' frontmatter and the changelog,   *)
(* with the operations initialize_command, update_version and              *)
(* check_compatibility.  Text is modelled as sequences of one-character    *)
(* strings so that parsing, formatting and rewriting are computed          *)
(* character by character as the Python code computes them.                *)
(***************************************************************************)
EXTENDS Integers, Sequences, FiniteSets, TLC

VARIABLES
    metadata,           \* [instance -> self.metadata], the in-memory store of each VersionManager
    storeFile,          \* .command-metadata.json: NoFile or the saved mapping
    files,              \* [path -> NoFile or text] for the command files
    changelog,          \* CHANGELOG.md: NoFile or text
    changelogWritable,  \* whether CHANGELOG.md can be written (file permissions)
    now,                \* datetime.now(), a logical clock
    audit,              \* per command: how it was registered and how many updates it saw
    written,            \* the sections written to the changelog, oldest first
    last,               \* the last operation, its arguments and its outcome
    HAS_YAML            \* whether the validators' "import yaml" succeeded

vars == <<metadata, storeFile, files, changelog, changelogWritable, now, audit, written, last,
          HAS_YAML>>

----------------------------------------------------------------------------
(* Bounds of the model *)

\* operations performed in one behaviour
MaxOps == 3
\* largest version component drawn for the pure-function specifications
MaxNum == 10

----------------------------------------------------------------------------
(* Text: Python str as a sequence of characters *)

\* Values that are no text: a path that does not exist, a raised ValueError, a missing key.
\* A text holds one-character strings only, so none of them is a text.
NoFile == <<"<no file>">>
Invalid == <<"<ValueError>">>
Absent == <<"<absent>">>
\* the triple standing for a ValueError raised by _parse_version
InvalidVersion == <<-1, -1, -1>>

Digits == <<"0", "1", "2", "3", "4", "5", "6", "7", "8", "9">>

IsDigit(c) == \E i \in 1..10 : Digits[i] = c

DigitVal(c) == (CHOOSE i \in 1..10 : Digits[i] = c) - 1

\* str.isspace for the characters of the model's alphabet
IsSpace(c) == c \in {" ", "\n", "\t", "\r"}

\* s[i:] with a 0-based Python index
From(s, i) == SubSeq(s, i + 1, Len(s))

\* s[i:j] with 0-based Python indices
Slice(s, i, j) == SubSeq(s, i + 1, j)

\* s.startswith(p, i)
StartsAt(s, p, i) ==
    /\ i + Len(p) <= Len(s)
    /\ \A k \in 1..Len(p) : s[i + k] = p[k]

StartsWith(s, p) == StartsAt(s, p, 0)

\* s.find(p, start): the least 0-based index >= start where p occurs, or -1
Find(s, p, start) ==
    LET hits == {i \in start..(Len(s) - Len(p)) : StartsAt(s, p, i)}
    IN  IF hits = {} THEN -1 ELSE CHOOSE i \in hits : \A j \in hits : i <= j

\* p in s
Contains(s, p) == Find(s, p, 0) # -1

\* s.rstrip()
RECURSIVE RStrip(_)
RStrip(s) ==
    IF s # <<>> /\ IsSpace(s[Len(s)]) THEN RStrip(SubSeq(s, 1, Len(s) - 1)) ELSE s

\* s.strip()
RECURSIVE LStrip(_)
LStrip(s) == IF s # <<>> /\ IsSpace(s[1]) THEN LStrip(Tail(s)) ELSE s

Strip(s) == LStrip(RStrip(s))

\* s.split('\n')
RECURSIVE SplitLines(_)
SplitLines(s) ==
    IF \A i \in 1..Len(s) : s[i] # "\n" THEN <<s>>
    ELSE LET first == CHOOSE i \in 1..Len(s) :
                          s[i] = "\n" /\ \A j \in 1..(i - 1) : s[j] # "\n"
         IN  <<SubSeq(s, 1, first - 1)>> \o SplitLines(SubSeq(s, first + 1, Len(s)))

\* '\n'.join(lines)
RECURSIVE JoinLines(_)
JoinLines(lines) ==
    IF lines = <<>> THEN <<>>
    ELSE IF Len(lines) = 1 THEN lines[1]
    ELSE lines[1] \o <<"\n">> \o JoinLines(Tail(lines))

\* int(s) for a non-empty string of digits
RECURSIVE ParseInt(_)
ParseInt(s) ==
    IF Len(s) = 1 THEN DigitVal(s[1])
    ELSE 10 * ParseInt(SubSeq(s, 1, Len(s) - 1)) + DigitVal(s[Len(s)])

\* str(n) for n >= 0
RECURSIVE FormatInt(_)
FormatInt(n) ==
    IF n < 10 THEN <<Digits[n + 1]>> ELSE FormatInt(n \div 10) \o <<Digits[(n % 10) + 1]>>

AllDigits(s) == s # <<>> /\ \A i \in 1..Len(s) : IsDigit(s[i])

----------------------------------------------------------------------------
(* Semantic versions *)

ChangeType == {"major", "minor", "patch"}

\* the components of s between dots, or Invalid when s is not digits.digits.digits
DotParts(s) ==
    LET d1 == Find(s, <<".">>, 0)
        d2 == IF d1 = -1 THEN -1 ELSE Find(s, <<".">>, d1 + 1)
    IN  IF d1 = -1 \/ d2 = -1 THEN InvalidVersion
        ELSE LET a == Slice(s, 0, d1)
                 b == Slice(s, d1 + 1, d2)
                 c == From(s, d2 + 1)
             IN  IF AllDigits(a) /\ AllDigits(b) /\ AllDigits(c)
                 THEN <<ParseInt(a), ParseInt(b), ParseInt(c)>>
                 ELSE InvalidVersion

\* re.match(r'^(\d+)\.(\d+)\.(\d+)$', version): '$' also matches before one final newline;
\* the result is the int triple, or InvalidVersion where the code raises ValueError
_parse_version(version) ==
    IF version # <<>> /\ version[Len(version)] = "\n"
    THEN DotParts(SubSeq(version, 1, Len(version) - 1))
    ELSE DotParts(version)

\* f"{major}.{minor}.{patch}"
FormatVersion(t) == FormatInt(t[1]) \o <<".">> \o FormatInt(t[2]) \o <<".">> \o FormatInt(t[3])

\* a variant of _increment_version that keeps the lower components instead of resetting them
IncrementNoReset(version, change_type) ==
    LET t == _parse_version(version)
    IN  IF t = InvalidVersion THEN Invalid
        ELSE IF change_type = "major" THEN FormatVersion(<<t[1] + 1, t[2], t[3]>>)
        ELSE IF change_type = "minor" THEN FormatVersion(<<t[1], t[2] + 1, t[3]>>)
        ELSE FormatVersion(<<t[1], t[2], t[3] + 1>>)

_increment_version(version, change_type) ==
    LET t == _parse_version(version)
    IN  IF t = InvalidVersion THEN Invalid
        ELSE IF change_type = "major" THEN FormatVersion(<<t[1] + 1, 0, 0>>)
        ELSE IF change_type = "minor" THEN FormatVersion(<<t[1], t[2] + 1, 0>>)
        ELSE FormatVersion(<<t[1], t[2], t[3] + 1>>)

----------------------------------------------------------------------------
(* Command files: the frontmatter rewrite and the frontmatter reader *)

Dashes == <<"-", "-", "-">>
VersionKey == <<"v", "e", "r", "s", "i", "o", "n", ":">>
InitialVersion == <<"1", ".", "0", ".", "0">>

\* the end (0-based, exclusive) of the run of characters from i on that satisfy the test
RECURSIVE SpaceRunEnd(_, _)
SpaceRunEnd(s, i) == IF i < Len(s) /\ IsSpace(s[i + 1]) THEN SpaceRunEnd(s, i + 1) ELSE i

RECURSIVE NumRunEnd(_, _)
NumRunEnd(s, i) ==
    IF i < Len(s) /\ (IsDigit(s[i + 1]) \/ s[i + 1] = ".") THEN NumRunEnd(s, i + 1) ELSE i

\* re.sub(r'version:\s*[\d.]+', f'version: {version}', frontmatter)
RECURSIVE SubVersion(_, _)
SubVersion(frontmatter, version) ==
    IF frontmatter = <<>> THEN <<>>
    ELSE LET j == SpaceRunEnd(frontmatter, Len(VersionKey))
             k == NumRunEnd(frontmatter, j)
         IN  IF StartsWith(frontmatter, VersionKey) /\ k > j
             THEN VersionKey \o <<" ">> \o version \o SubVersion(From(frontmatter, k), version)
             ELSE <<frontmatter[1]>> \o SubVersion(Tail(frontmatter), version)

\* f"---\nversion: {version}\n---\n{content}"
FreshBlock(content, version) ==
    Dashes \o <<"\n">> \o VersionKey \o <<" ">> \o version \o <<"\n">> \o Dashes \o <<"\n">> \o content

\* the text _update_command_file writes for a file holding content
NewContent(content, version) ==
    IF StartsWith(content, Dashes)
    THEN LET end_index == Find(content, Dashes, 3)
             frontmatter == Slice(content, 3, end_index)
         IN  IF end_index # -1
             THEN LET updated ==
                          IF Contains(frontmatter, VersionKey)
                          THEN SubVersion(frontmatter, version)
                          ELSE RStrip(frontmatter) \o <<"\n">> \o VersionKey \o <<" ">>
                                   \o version \o <<"\n">>
                  IN  Dashes \o updated \o Dashes \o From(content, end_index + 3)
             ELSE FreshBlock(content, version)
    ELSE FreshBlock(content, version)

\* yaml.safe_load(block)['version'] for a block of flat "key: value" lines: the value of
\* the last line whose key is version, or Absent
RECURSIVE VersionOfLines(_)
VersionOfLines(lines) ==
    IF lines = <<>> THEN Absent
    ELSE LET line == lines[Len(lines)]
             colon == Find(line, <<":">>, 0)
         IN  IF colon # -1 /\ Slice(line, 0, colon) = <<"v", "e", "r", "s", "i", "o", "n">>
             THEN Strip(From(line, colon + 1))
             ELSE VersionOfLines(SubSeq(lines, 1, Len(lines) - 1))

\* the version embedded in a file's leading frontmatter block, as the validator reads it
EmbeddedVersion(content) ==
    IF content # NoFile /\ StartsWith(content, Dashes) /\ Find(content, Dashes, 3) # -1
    THEN VersionOfLines(SplitLines(Slice(content, 3, Find(content, Dashes, 3))))
    ELSE Absent

----------------------------------------------------------------------------
(* The changelog *)

ChangelogTitle == <<"#", " ", "C", "l", "a", "u", "d", "e", " ", "C", "o", "d", "e", " ", "C", "o", "m", "m", "a", "n", "d", "s", " ", "C", "h", "a", "n", "g", "e", "l", "o", "g">>

\* datetime.now().strftime('%Y-%m-%d') at clock value t
DateStr(t) ==
    <<"2", "0", "2", "6", "-", "1", "1", "-">> \o (IF t + 1 < 10 THEN <<"0">> ELSE <<>>) \o FormatInt(t + 1)

\* "- {change}\n" for each change
RECURSIVE Bullets(_)
Bullets(items) ==
    IF items = <<>> THEN <<>>
    ELSE <<"-", " ">> \o items[1] \o <<"\n">> \o Bullets(Tail(items))

\* "".join(entry_lines)
Entry(command_name, new_version, version_entry, t) ==
    <<"\n", "#", "#", " ", "[">> \o <<command_name>> \o <<"]", " ">> \o new_version \o <<" ", "-", " ">> \o DateStr(t) \o <<"\n">>
    \o (IF version_entry.breaking_changes # <<>>
        THEN <<"\n", "#", "#", "#", " ", "B", "r", "e", "a", "k", "i", "n", "g", " ", "C", "h", "a", "n", "g", "e", "s", "\n">> \o Bullets(version_entry.breaking_changes)
        ELSE <<>>)
    \o (IF version_entry.changes # <<>>
        THEN <<"\n", "#", "#", "#", " ", "C", "h", "a", "n", "g", "e", "s", "\n">> \o Bullets(version_entry.changes)
        ELSE <<>>)
    \o (IF version_entry.deprecated_features # <<>>
        THEN <<"\n", "#", "#", "#", " ", "D", "e", "p", "r", "e", "c", "a", "t", "e", "d", "\n">> \o Bullets(version_entry.deprecated_features)
        ELSE <<>>)

\* line.startswith('# ')
IsTitleLine(line) == StartsWith(line, <<"#", " ">>)

\* a variant of InsertIndex that never looks for the title
InsertAtTop(lines) == 0

\* the insert position: one past the first title line, or 0

InsertIndex(lines) ==
    LET hits == {i \in 1..Len(lines) : IsTitleLine(lines[i])}
    IN  IF hits = {} THEN 0 ELSE CHOOSE i \in hits : \A j \in hits : i <= j

\* lines.insert(insert_index, entry)
InsertAt(lines, i, entry) == SubSeq(lines, 1, i) \o <<entry>> \o SubSeq(lines, i + 1, Len(lines))

\* the text _update_changelog writes
NewChangelog(old, entry) ==
    IF old # NoFile
    THEN LET lines == SplitLines(old)
         IN  JoinLines(InsertAt(lines, InsertIndex(lines), entry))
    ELSE ChangelogTitle \o <<"\n">> \o entry

----------------------------------------------------------------------------
(* The metadata store *)

Instances == {1, 2}
Names == {"a", "b"}

WorkflowsA == [dir |-> "workflows", stem |-> "a"]
ToolsA == [dir |-> "tools", stem |-> "a"]
ToolsB == [dir |-> "tools", stem |-> "b"]
Paths == {WorkflowsA, ToolsA, ToolsB}
NoPath == [dir |-> "", stem |-> ""]

EmptyStore == [c \in {} |-> 0]

\* CommandVersion(version, released, changes, breaking_changes, deprecated_features)
CommandVersion(version, released, changes, breaking_changes, deprecated_features) ==
    [version |-> version, released |-> released, changes |-> changes,
     breaking_changes |-> breaking_changes, deprecated_features |-> deprecated_features]

\* "workflow" if "workflows" in str(command_path) else "tool"
CommandTypeOf(command_path) == IF command_path.dir = "workflows" THEN "workflow" ELSE "tool"

\* the CommandMetadata initialize_command builds at time t
InitialMetadata(command_path, tags, t) ==
    [name |-> command_path.stem,
     type |-> CommandTypeOf(command_path),
     description |-> <<>>,
     current_version |-> InitialVersion,
     created |-> t,
     last_updated |-> t,
     tags |-> tags,
     dependencies |-> <<>>,
     version_history |->
        <<CommandVersion(InitialVersion, t, <<<<"I", "n", "i", "t", "i", "a", "l", " ", "r", "e", "l", "e", "a", "s", "e">>>>, <<>>, <<>>)>>]

\* json.dumps of asdict of every record, written to the store file
_save_metadata(store) == [exists |-> TRUE, data |-> store]

\* the mapping read back from the store file, {} when there is none
_load_metadata(file) == IF file.exists THEN file.data ELSE EmptyStore

Exists(fs, path) == path \in DOMAIN fs /\ fs[path] # NoFile

\* the first of workflows/<name>.md, tools/<name>.md that exists, or NoPath
_find_command_file(fs, command_name) ==
    IF Exists(fs, [dir |-> "workflows", stem |-> command_name])
    THEN [dir |-> "workflows", stem |-> command_name]
    ELSE IF Exists(fs, [dir |-> "tools", stem |-> command_name])
    THEN [dir |-> "tools", stem |-> command_name]
    ELSE NoPath

\* the file system after command_path.write_text(new_content)
_update_command_file(fs, command_path, version) ==
    [fs EXCEPT ![command_path] = NewContent(@, version)]

\* a variant of TupleGE that compares each component on its own
ComponentwiseGE(current, required) ==
    current[1] >= required[1] /\ current[2] >= required[2] /\ current[3] >= required[3]

\* current >= required on (major, minor, patch) tuples
TupleGE(current, required) ==
    \/ current[1] > required[1]
    \/ current[1] = required[1] /\ current[2] > required[2]
    \/ current[1] = required[1] /\ current[2] = required[2] /\ current[3] >= required[3]

----------------------------------------------------------------------------
(* Repositories the Version Manager starts from, and the callers' inputs *)

PlainFile == <<"#", " ", "A", "\n">>
FmNoVersionFile == <<"-", "-", "-", "\n", "t", "a", "g", "s", ":", " ", "x", "\n", "-", "-", "-", "\n", "#", " ", "A", "\n">>
FmVersionFile == <<"-", "-", "-", "\n", "v", "e", "r", "s", "i", "o", "n", ":", " ", "1", ".", "0", ".", "0", "\n", "-", "-", "-", "\n", "#", " ", "B", "\n">>
FmWordFile == <<"-", "-", "-", "\n", "v", "e", "r", "s", "i", "o", "n", ":", " ", "b", "e", "t", "a", "\n", "-", "-", "-", "\n", "#", " ", "B", "\n">>
FmOtherKeyFile == <<"-", "-", "-", "\n", "a", "p", "i", "_", "v", "e", "r", "s", "i", "o", "n", ":", " ", "2", "\n", "-", "-", "-", "\n", "#", " ", "A", "\n">>
FmEmptyFile == <<"-", "-", "-", "\n", "-", "-", "-", "\n", "#", " ", "A", "\n">>
UnclosedFile == <<"-", "-", "-", "\n", "t", "a", "g", "s", ":", " ", "x", "\n", "#", " ", "A", "\n">>

\* a record as an earlier run's initialize_command left it, with the given current version
StoredB(version) ==
    [InitialMetadata(ToolsB, <<>>, 0) EXCEPT
        !.current_version = version,
        !.version_history = <<CommandVersion(version, 0, <<<<"I", "n", "i", "t", "i", "a", "l", " ", "r", "e", "l", "e", "a", "s", "e">>>>, <<>>, <<>>)>>]

\* no store file; b registered by an earlier run; b with a hand-edited version that lacks
\* a component; b with a hand-edited version that ends in a newline
InitialStoreFiles ==
    { [exists |-> FALSE, data |-> EmptyStore],
      _save_metadata("b" :> StoredB(InitialVersion)),
      _save_metadata("b" :> StoredB(<<"1", ".", "0">>)),
      _save_metadata("b" :> StoredB(<<"1", ".", "0", ".", "0", "\n">>)) }

InitialFiles ==
    { (WorkflowsA :> wa) @@ (ToolsA :> ta) @@ (ToolsB :> tb) :
        wa \in {NoFile, PlainFile},
        ta \in {NoFile, FmNoVersionFile},
        tb \in {NoFile, FmVersionFile} }

UsedChangelog == <<"N", "o", "t", "e", "s", "\n", "#", " ", "C", "h", "a", "n", "g", "e", "l", "o", "g", "\n", "\n", "#", "#", " ", "[", "b", "]", " ", "0", ".", "9", ".", "0", " ", "-", " ", "2", "0", "2", "6", "-", "1", "0", "-", "0", "1", "\n", "-", " ", "o", "l", "d", "\n">>
UntitledChangelog == <<"N", "o", "t", "e", "s", "\n">>

InitialChangelogs == {NoFile, UsedChangelog, UntitledChangelog}

\* the tags a caller passes: stored in the record, read by no operation
TagSets == {<<<<"u", "t", "i", "l">>>>}

\* change kind, changes, breaking changes, deprecated features of an update
UpdateInputs ==
    { [kind |-> "patch", changes |-> <<<<"f", "i", "x">>>>, breaking_changes |-> <<>>,
       deprecated_features |-> <<>>],
      [kind |-> "minor", changes |-> <<<<"a", "d", "d">>>>, breaking_changes |-> <<>>,
       deprecated_features |-> <<<<"o", "l", "d">>>>],
      [kind |-> "major", changes |-> <<<<"n", "e", "w">>>>, breaking_changes |-> <<<<"a", "p", "i">>>>,
       deprecated_features |-> <<>>] }

RequiredVersions == {<<"1", ".", "0", ".", "1">>, <<"1", ".", "1", ".", "0">>, <<"2", ".", "0", ".", "0">>}

\* byInit: registered by initialize_command in this run, from path; initOk: that call
\* returned normally; ok, failed: the update_version calls that returned, that raised
NoAudit == [byInit |-> FALSE, initOk |-> FALSE, path |-> NoPath, ok |-> 0, failed |-> 0]

NoOp ==
    [op |-> "", inst |-> 0, cmd |-> "", path |-> NoPath, kind |-> "", required |-> <<>>,
     outcome |-> "", entry |-> <<>>, old_version |-> <<>>,
     new_version |-> <<>>, results |-> <<>>]

Init ==
    /\ storeFile \in InitialStoreFiles
    /\ metadata = [i \in Instances |-> _load_metadata(storeFile)]
    /\ files \in InitialFiles
    /\ changelog \in InitialChangelogs
    /\ changelogWritable \in (IF changelog = UsedChangelog THEN BOOLEAN ELSE {TRUE})
    /\ now = 0
    /\ audit = [c \in Names |-> NoAudit]
    /\ written = <<>>
    /\ last = NoOp
    /\ HAS_YAML = TRUE

----------------------------------------------------------------------------
(* Operations *)

\* a variant of Registered without the early return for a registered command
InitOverwrites(store, command_path, tags, t) ==
    (command_path.stem :> InitialMetadata(command_path, tags, t)) @@
        [c \in DOMAIN store \ {command_path.stem} |-> store[c]]

\* a variant of Registered that starts a new mapping holding the new command alone
RegisteredAlone(store, command_path, tags, t) ==
    IF command_path.stem \in DOMAIN store
    THEN store
    ELSE (command_path.stem :> InitialMetadata(command_path, tags, t))

\* the store after initialize_command: unchanged when the command is registered already
Registered(store, command_path, tags, t) ==
    IF command_path.stem \in DOMAIN store
    THEN store
    ELSE (command_path.stem :> InitialMetadata(command_path, tags, t)) @@ store

initialize_command(i, command_path, tags) ==
    LET command_name == command_path.stem
        already == command_name \in DOMAIN metadata[i]
        store == Registered(metadata[i], command_path, tags, now)
        readable == Exists(files, command_path)
    IN  /\ now < MaxOps
        /\ now' = now + 1
        /\ metadata' = [metadata EXCEPT ![i] = store]
        /\ storeFile' = IF already THEN storeFile ELSE _save_metadata(store)
        /\ files' = IF ~already /\ readable
                    THEN _update_command_file(files, command_path, InitialVersion)
                    ELSE files
        /\ audit' = IF already THEN audit
                    ELSE [audit EXCEPT ![command_name] =
                            [byInit |-> TRUE, initOk |-> readable, path |-> command_path,
                             ok |-> 0, failed |-> 0]]
        /\ last' = [NoOp EXCEPT !.op = "initialize_command", !.inst = i,
                                 !.cmd = command_name, !.path = command_path,
                                 !.outcome = IF already THEN "noop"
                                             ELSE IF readable THEN "ok" ELSE "error"]
        /\ UNCHANGED <<changelog, changelogWritable, written, HAS_YAML>>

\* a variant of Bumped that appends the entry and forgets current_version
AppendKeepsVersion(md, new_version, version_entry, t) ==
    [md EXCEPT !.last_updated = t, !.version_history = Append(@, version_entry)]

\* a variant of Bumped that puts the new entry in front of the history
EntryInFront(md, new_version, version_entry, t) ==
    [md EXCEPT !.current_version = new_version,
               !.last_updated = t,
               !.version_history = <<version_entry>> \o @]

\* the record after update_version's three assignments
Bumped(md, new_version, version_entry, t) ==
    [md EXCEPT !.current_version = new_version,
               !.last_updated = t,
               !.version_history = Append(@, version_entry)]

\* a variant of update_version that reads the store file again before it applies the update
ReloadingUpdate(i, command_name, input) ==
    LET fresh == _load_metadata(storeFile)
        known == command_name \in DOMAIN fresh
        old_version == IF known THEN fresh[command_name].current_version ELSE <<>>
        new_version == IF known THEN _increment_version(old_version, input.kind) ELSE Invalid
        version_entry == CommandVersion(new_version, now, input.changes,
                                        input.breaking_changes, input.deprecated_features)
        store == [fresh EXCEPT
                    ![command_name] = Bumped(@, new_version, version_entry, now)]
        command_path == _find_command_file(files, command_name)
        entry == Entry(command_name, new_version, version_entry, now)
        rejected == ~known \/ new_version = Invalid
    IN  /\ now < MaxOps
        /\ now' = now + 1
        /\ metadata' = IF rejected THEN metadata ELSE [metadata EXCEPT ![i] = store]
        /\ storeFile' = IF rejected THEN storeFile ELSE _save_metadata(store)
        /\ files' = IF rejected \/ command_path = NoPath THEN files
                    ELSE _update_command_file(files, command_path, new_version)
        /\ changelog' = IF rejected \/ ~changelogWritable THEN changelog
                        ELSE NewChangelog(changelog, entry)
        /\ written' = IF rejected \/ ~changelogWritable THEN written
                      ELSE Append(written, entry)
        /\ audit' = IF rejected \/ ~changelogWritable
                    THEN [audit EXCEPT ![command_name].failed = @ + 1]
                    ELSE [audit EXCEPT ![command_name].ok = @ + 1]
        /\ last' = [NoOp EXCEPT !.op = "update_version", !.inst = i, !.cmd = command_name,
                                 !.kind = input.kind, !.entry = entry,
                                 !.old_version = old_version, !.new_version = new_version,
                                 !.outcome = IF rejected \/ ~changelogWritable
                                             THEN "error" ELSE "ok"]
        /\ UNCHANGED <<changelogWritable, HAS_YAML>>

update_version(i, command_name, input) ==
    LET known == command_name \in DOMAIN metadata[i]
        old_version == IF known THEN metadata[i][command_name].current_version ELSE <<>>
        new_version == IF known THEN _increment_version(old_version, input.kind) ELSE Invalid
        version_entry == CommandVersion(new_version, now, input.changes,
                                        input.breaking_changes, input.deprecated_features)
        store == [metadata[i] EXCEPT
                    ![command_name] = Bumped(@, new_version, version_entry, now)]
        command_path == _find_command_file(files, command_name)
        entry == Entry(command_name, new_version, version_entry, now)
        rejected == ~known \/ new_version = Invalid
    IN  /\ now < MaxOps
        /\ now' = now + 1
        /\ metadata' = IF rejected THEN metadata ELSE [metadata EXCEPT ![i] = store]
        /\ storeFile' = IF rejected THEN storeFile ELSE _save_metadata(store)
        /\ files' = IF rejected \/ command_path = NoPath THEN files
                    ELSE _update_command_file(files, command_path, new_version)
        /\ changelog' = IF rejected \/ ~changelogWritable THEN changelog
                        ELSE NewChangelog(changelog, entry)
        /\ written' = IF rejected \/ ~changelogWritable THEN written
                      ELSE Append(written, entry)
        /\ audit' = IF rejected \/ ~changelogWritable
                    THEN [audit EXCEPT ![command_name].failed = @ + 1]
                    ELSE [audit EXCEPT ![command_name].ok = @ + 1]
        /\ last' = [NoOp EXCEPT !.op = "update_version", !.inst = i, !.cmd = command_name,
                                 !.kind = input.kind, !.entry = entry,
                                 !.old_version = old_version, !.new_version = new_version,
                                 !.outcome = IF rejected \/ ~changelogWritable
                                             THEN "error" ELSE "ok"]
        /\ UNCHANGED <<changelogWritable, HAS_YAML>>

\* what check_compatibility returns: "error" stands for the ValueError of _parse_version
Compatible(store, command_name, required_version) ==
    IF command_name \notin DOMAIN store THEN "false"
    ELSE LET current == _parse_version(store[command_name].current_version)
             required == _parse_version(required_version)
         IN  IF current = InvalidVersion \/ required = InvalidVersion THEN "error"
             ELSE IF TupleGE(current, required) THEN "true" ELSE "false"

check_compatibility(i, command_name, required_version) ==
    /\ last' = [NoOp EXCEPT !.op = "check_compatibility", !.inst = i, !.cmd = command_name,
                             !.required = required_version,
                             !.outcome = Compatible(metadata[i], command_name, required_version)]
    /\ UNCHANGED <<metadata, storeFile, files, changelog, changelogWritable, now, audit, written,
                   HAS_YAML>>

\* the single caller the design assumes
Writers == {1}

Next ==
    \/ \E i \in Writers, p \in Paths, tags \in TagSets : initialize_command(i, p, tags)
    \/ \E i \in Writers, c \in Names, input \in UpdateInputs : update_version(i, c, input)

Spec == Init /\ [][Next]_vars

\* The same operations with compatibility queries between them, from a repository whose
\* command files all exist and whose changelog has not been created yet.
InitQuery ==
    /\ Init
    /\ files = (WorkflowsA :> PlainFile) @@ (ToolsA :> FmNoVersionFile) @@ (ToolsB :> FmVersionFile)
    /\ changelog = NoFile

NextQuery ==
    \/ Next
    \/ \E i \in Writers, c \in Names, r \in RequiredVersions : check_compatibility(i, c, r)

SpecQuery == InitQuery /\ [][NextQuery]_vars

\* Two VersionManager objects over one repository, each constructed (and its store loaded)
\* before either one acts; their calls interleave in any order.
InitConcurrent == InitQuery

NextConcurrent ==
    \/ \E i \in Instances, p \in Paths, tags \in TagSets : initialize_command(i, p, tags)
    \/ \E i \in Instances, c \in Names, input \in UpdateInputs : update_version(i, c, input)

SpecConcurrent == InitConcurrent /\ [][NextConcurrent]_vars

----------------------------------------------------------------------------
(* _increment_version as a function of its arguments *)

\* the strings MAJOR.MINOR.PATCH with every component in 0..MaxNum
SemverStrings == {FormatVersion(<<a, b, c>>) : a \in 0..MaxNum, b \in 0..MaxNum, c \in 0..MaxNum}

\* strings that are not MAJOR.MINOR.PATCH
OddStrings == {<<>>, <<"1", ".", "0">>, <<"1", ".", "0", ".", "0", "-", "r", "c">>, <<"v", "1", ".", "0", ".", "0">>, <<"1", ".", "0", ".", "0", "\n">>}

\* a state of the rest of the program in which nothing is registered and no file exists
Idle ==
    /\ metadata = [i \in Instances |-> EmptyStore]
    /\ storeFile = [exists |-> FALSE, data |-> EmptyStore]
    /\ changelog = NoFile
    /\ changelogWritable = TRUE
    /\ now = 0
    /\ audit = [c \in Names |-> NoAudit]
    /\ written = <<>>

InitIncrement ==
    /\ Idle
    /\ HAS_YAML = TRUE
    /\ files = [p \in Paths |-> NoFile]
    /\ \E v \in SemverStrings \cup OddStrings : last = [NoOp EXCEPT !.op = "input", !.old_version = v]

IncrementCall(change_type) ==
    /\ last.op = "input"
    /\ last' = [last EXCEPT !.op = "_increment_version", !.kind = change_type,
                            !.new_version = _increment_version(last.old_version, change_type)]
    /\ UNCHANGED <<metadata, storeFile, files, changelog, changelogWritable, now, audit, written,
                   HAS_YAML>>

NextIncrement == \E change_type \in ChangeType : IncrementCall(change_type)

SpecIncrement == InitIncrement /\ [][NextIncrement]_vars

----------------------------------------------------------------------------
(* _update_command_file applied to one file, and applied again to its result *)

\* applications of the rewrite to the file in one behaviour
MaxRewrites == 2

RewriteShapes ==
    {PlainFile, FmVersionFile, FmNoVersionFile, FmEmptyFile, UnclosedFile, FmWordFile,
     FmOtherKeyFile}

RewriteVersions == {FormatVersion(<<a, b, c>>) : a \in {1, MaxNum}, b \in {0, MaxNum}, c \in {0, 3}}

InitRewrite ==
    /\ Idle
    /\ HAS_YAML = TRUE
    /\ \E content \in RewriteShapes :
          files = [p \in Paths |-> IF p = ToolsA THEN content ELSE NoFile]
    /\ last = NoOp

RewriteCall(command_path, version) ==
    /\ now < MaxRewrites
    /\ Exists(files, command_path)
    /\ now' = now + 1
    /\ files' = _update_command_file(files, command_path, version)
    /\ last' = [NoOp EXCEPT !.op = "_update_command_file", !.path = command_path,
                             !.old_version = EmbeddedVersion(files[command_path]),
                             !.new_version = version]
    /\ UNCHANGED <<metadata, storeFile, changelog, changelogWritable, audit, written, HAS_YAML>>

NextRewrite == \E p \in Paths, v \in RewriteVersions : RewriteCall(p, v)

SpecRewrite == InitRewrite /\ [][NextRewrite]_vars

----------------------------------------------------------------------------
(* The validators (src/tests/test_framework.py): text helpers *)

LowerLetters == <<"a", "b", "c", "d", "e", "f", "g", "h", "i", "j", "k", "l", "m", "n", "o", "p", "q", "r", "s", "t", "u", "v", "w", "x", "y", "z">>
UpperLetters == <<"A", "B", "C", "D", "E", "F", "G", "H", "I", "J", "K", "L", "M", "N", "O", "P", "Q", "R", "S", "T", "U", "V", "W", "X", "Y", "Z">>

\* the grave accent U+0060, a character that a TLA+ string cannot hold
Backtick == "<grave>"

IsLowerLetter(c) == \E k \in 1..26 : LowerLetters[k] = c

\* a character of the class [a-z0-9-]
IsNameChar(c) == IsLowerLetter(c) \/ IsDigit(c) \/ c = "-"

\* s.lower()
lower(s) ==
    [i \in 1..Len(s) |->
        IF \E k \in 1..26 : UpperLetters[k] = s[i]
        THEN LowerLetters[CHOOSE k \in 1..26 : UpperLetters[k] = s[i]]
        ELSE s[i]]

\* s.splitlines() for a text whose only line break is "\n": no empty last line
splitlines(s) ==
    IF s = <<>> THEN <<>>
    ELSE IF s[Len(s)] = "\n" THEN SplitLines(SubSeq(s, 1, Len(s) - 1))
    ELSE SplitLines(s)

\* the number of non-overlapping occurrences of p in s from the 0-based index start on
RECURSIVE CountFrom(_, _, _)
CountFrom(s, p, start) ==
    LET i == Find(s, p, start)
    IN  IF i = -1 THEN 0 ELSE 1 + CountFrom(s, p, i + Len(p))

\* s.count(p)
Count(s, p) == CountFrom(s, p, 0)

\* ValidationResult(level, message, line_number); line_number 0 stands for None, detail
\* holds the values the message interpolates
Finding(level, message, line_number, detail) ==
    [level |-> level, message |-> message, line_number |-> line_number, detail |-> detail]

----------------------------------------------------------------------------
(* CommandValidator: the rules that read one document *)

_validate_structure(content, lines) ==
    (IF Strip(content) = <<>>
     THEN <<Finding("error", "Command file is empty", 0, <<>>)>> ELSE <<>>)
    \o (IF ~\E i \in 1..Len(lines) : StartsWith(lines[i], <<"#">>)
        THEN <<Finding("warning", "Command should have at least one header", 0, <<>>)>>
        ELSE <<>>)

\* re.match(r'^[a-z][a-z0-9-]*$', name): '$' also matches before one final newline
NameMatches(name) ==
    LET n == IF name # <<>> /\ name[Len(name)] = "\n"
             THEN SubSeq(name, 1, Len(name) - 1) ELSE name
    IN  /\ n # <<>>
        /\ IsLowerLetter(n[1])
        /\ \A i \in 2..Len(n) : IsNameChar(n[i])

_validate_naming(command_name) ==
    (IF ~NameMatches(command_name)
     THEN <<Finding("error", "Command name must use lowercase-hyphen format", 0, <<command_name>>)>>
     ELSE <<>>)
    \o (IF Len(command_name) > 30
        THEN <<Finding("warning", "Command name is longer than 30 characters", 0, <<command_name>>)>>
        ELSE <<>>)

needs_arguments_keywords ==
    {<<"c", "r", "e", "a", "t", "e">>,
     <<"g", "e", "n", "e", "r", "a", "t", "e">>,
     <<"b", "u", "i", "l", "d">>,
     <<"i", "m", "p", "l", "e", "m", "e", "n", "t">>,
     <<"a", "d", "d">>,
     <<"m", "o", "d", "i", "f", "y">>,
     <<"a", "n", "a", "l", "y", "z", "e">>,
     <<"r", "e", "v", "i", "e", "w">>,
     <<"o", "p", "t", "i", "m", "i", "z", "e">>,
     <<"m", "i", "g", "r", "a", "t", "e">>,
     <<"c", "o", "n", "v", "e", "r", "t">>}

_validate_placeholders(content, command_name) ==
    IF /\ \E keyword \in needs_arguments_keywords : Contains(command_name, keyword)
       /\ ~Contains(content, <<"$", "A", "R", "G", "U", "M", "E", "N", "T", "S">>)
    THEN <<Finding("warning", "Command likely needs $ARGUMENTS placeholder based on its name", 0, <<>>)>>
    ELSE <<>>

\* len(line) - len(line.lstrip('#')): the end of the run of '#' that starts at index i
RECURSIVE HashRunEnd(_, _)
HashRunEnd(line, i) == IF i < Len(line) /\ line[i + 1] = "#" THEN HashRunEnd(line, i + 1) ELSE i

\* the (level, 1-based line number) of every line that starts with '#', in line order
RECURSIVE HeaderLevelsFrom(_, _)
HeaderLevelsFrom(lines, i) ==
    IF i > Len(lines) THEN <<>>
    ELSE (IF StartsWith(lines[i], <<"#">>) THEN << <<HashRunEnd(lines[i], 0), i>> >> ELSE <<>>)
         \o HeaderLevelsFrom(lines, i + 1)

\* a variant of HeaderJump that warns about every header deeper than the one before it
AnyDeeper(curr_level, prev_level) == curr_level > prev_level

\* curr_level > prev_level + 1
HeaderJump(curr_level, prev_level) == curr_level > prev_level + 1

_validate_markdown(content, lines) ==
    LET header_levels == HeaderLevelsFrom(lines, 1)
        pairs == [k \in 1..(Len(header_levels) - 1) |-> <<header_levels[k], header_levels[k + 1]>>]
        jumps == SelectSeq(pairs, LAMBDA pr : HeaderJump(pr[2][1], pr[1][1]))
    IN  (IF Count(content, <<Backtick, Backtick, Backtick>>) % 2 # 0
         THEN <<Finding("error", "Unclosed code block detected", 0, <<>>)>> ELSE <<>>)
        \o [k \in 1..Len(jumps) |->
               Finding("warning", "Header level jumps", jumps[k][2][2],
                       <<jumps[k][1][1], jumps[k][2][1]>>)]

----------------------------------------------------------------------------
(* CommandValidator: cross-references *)

\* a character of the class [\s`]
IsDelim(c) == IsSpace(c) \/ c = Backtick

\* '^' under re.MULTILINE at the 0-based index pos: the start of the text or of a line
LineStart(s, pos) == pos = 0 \/ s[pos] = "\n"

\* the end (0-based, exclusive) of the run of [a-z0-9-] that starts at index i
RECURSIVE NameRunEnd(_, _)
NameRunEnd(s, i) == IF i < Len(s) /\ IsNameChar(s[i + 1]) THEN NameRunEnd(s, i + 1) ELSE i

\* (/[a-z][a-z0-9-]+)(?:[\s`]|$) matched with its '/' at index i: the greedy run must be
\* followed by a delimiter or by the end of the text
RefAt(s, i) ==
    /\ i + 2 < Len(s)
    /\ s[i + 1] = "/"
    /\ IsLowerLetter(s[i + 2])
    /\ LET e == NameRunEnd(s, i + 2)
       IN  /\ e > i + 2
           /\ e = Len(s) \/ IsDelim(s[e + 1])

\* the index of the '/' of a match of command_pattern that starts at pos, or -1:
\* (?:^|[\s`]) is the empty match at a line start, else one delimiter
RefSlash(s, pos) ==
    IF LineStart(s, pos) /\ RefAt(s, pos) THEN pos
    ELSE IF pos < Len(s) /\ IsDelim(s[pos + 1]) /\ RefAt(s, pos + 1) THEN pos + 1
    ELSE -1

\* re.findall(command_pattern, s, re.MULTILINE) from index cur on: the groups of the
\* leftmost non-overlapping matches; a match takes the delimiter that follows it
RECURSIVE FindRefsFrom(_, _)
FindRefsFrom(s, cur) ==
    LET hits == {pos \in cur..(Len(s) - 1) : RefSlash(s, pos) # -1}
    IN  IF hits = {} THEN <<>>
        ELSE LET pos == CHOOSE p \in hits : \A q \in hits : p <= q
                 i == RefSlash(s, pos)
                 e == NameRunEnd(s, i + 2)
             IN  <<Slice(s, i, e)>> \o FindRefsFrom(s, IF e < Len(s) THEN e + 1 ELSE e)

command_refs(content) == FindRefsFrom(content, 0)

\* s.lstrip(chars) and s.strip(chars) for a set of characters
RECURSIVE LStripChars(_, _)
LStripChars(s, chars) == IF s # <<>> /\ s[1] \in chars THEN LStripChars(Tail(s), chars) ELSE s

RECURSIVE RStripChars(_, _)
RStripChars(s, chars) ==
    IF s # <<>> /\ s[Len(s)] \in chars THEN RStripChars(SubSeq(s, 1, Len(s) - 1), chars) ELSE s

StripChars(s, chars) == LStripChars(RStripChars(s, chars), chars)

exclude_patterns ==
    {<<"/", "l", "o", "c", "a", "l", "h", "o", "s", "t">>,
     <<"/", "b", "i", "n">>,
     <<"/", "b", "a", "s", "h">>,
     <<"/", "u", "s", "r">>,
     <<"/", "e", "t", "c">>,
     <<"/", "v", "a", "r">>,
     <<"/", "t", "m", "p">>,
     <<"/", "p", "r", "e", "-", "c", "o", "m", "m", "i", "t">>,
     <<"/", "c", "h", "e", "c", "k", "o", "u", "t">>,
     <<"/", "u", "p", "l", "o", "a", "d">>,
     <<"/", "d", "o", "w", "n", "l", "o", "a", "d">>,
     <<"/", "c", "l", "i">>,
     <<"/", "s", "e", "t", "u", "p", "-", "n", "o", "d", "e">>,
     <<"/", "w", "o", "r", "k", "f", "l", "o", "w", "s">>,
     <<"/", "t", "o", "o", "l", "s">>,
     <<"/", "a", "c", "t", "i", "o", "n", "s">>,
     <<"/", "d", "i", "v">>,
     <<"/", "s", "p", "a", "n">>,
     <<"/", "b", "u", "t", "t", "o", "n">>,
     <<"/", "f", "o", "r", "m">>,
     <<"/", "l", "a", "b", "e", "l">>,
     <<"/", "i", "n", "p", "u", "t">>,
     <<"/", "h", "1">>,
     <<"/", "h", "2">>,
     <<"/", "h", "3">>,
     <<"/", "h", "4">>,
     <<"/", "h", "5">>,
     <<"/", "h", "6">>,
     <<"/", "p">>,
     <<"/", "a">>,
     <<"/", "t", "i", "t", "l", "e">>,
     <<"/", "h", "e", "a", "d">>,
     <<"/", "b", "o", "d", "y">>,
     <<"/", "s", "t", "y", "l", "e">>,
     <<"/", "s", "c", "r", "i", "p", "t">>,
     <<"/", "f", "i", "e", "l", "d", "s", "e", "t">>,
     <<"/", "l", "e", "g", "e", "n", "d">>,
     <<"/", "s", "t", "o", "p", "p", "e", "d">>,
     <<"/", "a", "p", "i">>,
     <<"/", "a", "u", "t", "h">>,
     <<"/", "u", "s", "e", "r">>,
     <<"/", "a", "d", "m", "i", "n">>,
     <<"/", "c", "o", "n", "f", "i", "g">>}

\* a variant of Excluded that skips a reference only when it is a listed path itself
ExcludedExactly(ref) == (<<"/">> \o ref) \in exclude_patterns

\* any(f'/{ref}' in exclude_patterns or ref.startswith(ex.lstrip('/')) for ex in ...)
Excluded(ref) ==
    \E ex \in exclude_patterns :
        \/ (<<"/">> \o ref) \in exclude_patterns
        \/ StartsWith(ref, LStripChars(ex, {"/"}))

\* workflow_path.exists() or tool_path.exists()
Resolves(fs, ref) ==
    \/ Exists(fs, [dir |-> "workflows", stem |-> ref])
    \/ Exists(fs, [dir |-> "tools", stem |-> ref])

\* the reference of a match and whether the loop reports it
Reported(fs, command_name, ref_match) ==
    LET ref == StripChars(ref_match, {"/", " "})
    IN  ref # command_name /\ ~Excluded(ref) /\ ~Resolves(fs, ref)

_validate_references(fs, content, command_name) ==
    LET missing == SelectSeq(command_refs(content),
                             LAMBDA ref_match : Reported(fs, command_name, ref_match))
    IN  [k \in 1..Len(missing) |->
            Finding("warning", "Referenced command not found", 0,
                    <<StripChars(missing[k], {"/", " "})>>)]

----------------------------------------------------------------------------
(* CommandValidator: frontmatter metadata *)

\* the lines that carry content: blank lines and comment lines carry none
ContentLines(lines) ==
    SelectSeq([k \in 1..Len(lines) |-> RStrip(lines[k])],
              LAMBDA line : Strip(line) # <<>> /\ LStrip(line)[1] # "#")

\* a block sequence entry "- item"
IsItem(line) == StartsWith(line, <<"-", " ">>)

\* the index of the ':' that ends a mapping key: the first ": ", else a ':' that ends
\* the line, else -1
KeyColon(line) ==
    IF Find(line, <<":", " ">>, 0) # -1 THEN Find(line, <<":", " ">>, 0)
    ELSE IF line[Len(line)] = ":" THEN Len(line) - 1
    ELSE -1

IsPair(line) == ~IsItem(line) /\ KeyColon(line) > 0

PairKey(line) == Slice(line, 0, KeyColon(line))

PairValue(line) == Strip(From(line, KeyColon(line) + 1))

\* a value the YAML scanner rejects: a second mapping indicator, or a flow sequence
\* that is not closed on its line
BadValue(v) ==
    /\ v # <<>>
    /\ \/ Contains(v, <<":", " ">>)
       \/ v[Len(v)] = ":"
       \/ v[1] = "[" /\ v[Len(v)] # "]"

NoYaml == [kind |-> "", pairs |-> <<>>, items |-> <<>>, text |-> <<>>]

\* the value the loader builds from the content lines ls of a block
Loaded(ls) ==
    IF \E k \in 1..Len(ls) : ls[k][1] = "\t" \/ (IsPair(ls[k]) /\ BadValue(PairValue(ls[k])))
    THEN [NoYaml EXCEPT !.kind = "error"]
    ELSE IF ls = <<>> THEN [NoYaml EXCEPT !.kind = "none"]
    ELSE IF \A k \in 1..Len(ls) : IsPair(ls[k])
    THEN [NoYaml EXCEPT !.kind = "mapping",
                        !.pairs = [k \in 1..Len(ls) |-> <<PairKey(ls[k]), PairValue(ls[k])>>]]
    ELSE IF \A k \in 1..Len(ls) : IsItem(ls[k])
    THEN [NoYaml EXCEPT !.kind = "list",
                        !.items = [k \in 1..Len(ls) |-> Strip(From(ls[k], 2))]]
    ELSE IF \A k \in 1..Len(ls) : ~IsPair(ls[k]) /\ ~IsItem(ls[k])
    THEN IF Len(ls) = 1 /\ AllDigits(Strip(ls[1]))
         THEN [NoYaml EXCEPT !.kind = "int", !.text = Strip(ls[1])]
         ELSE [NoYaml EXCEPT !.kind = "str", !.text = Strip(JoinLines(ls))]
    ELSE [NoYaml EXCEPT !.kind = "error"]

\* yaml.safe_load(block) for an unindented block of plain lines: kind is "mapping"
\* (key: value lines), "list" (- item lines), "str" or "int" (plain text), "none" (no
\* content), or "error" where the loader raises yaml.YAMLError
safe_load(block) == Loaded(ContentLines(SplitLines(block)))

Version == <<"v", "e", "r", "s", "i", "o", "n">>

\* 'version' in metadata: a key of a mapping, an item of a list, a substring of a str;
\* None and int are not containers and the test raises TypeError
VersionIn(metadata_) ==
    CASE metadata_.kind = "mapping" ->
            IF \E k \in 1..Len(metadata_.pairs) : metadata_.pairs[k][1] = Version
            THEN "yes" ELSE "no"
      [] metadata_.kind = "list" ->
            IF \E k \in 1..Len(metadata_.items) : metadata_.items[k] = Version
            THEN "yes" ELSE "no"
      [] metadata_.kind = "str" -> IF Contains(metadata_.text, Version) THEN "yes" ELSE "no"
      [] OTHER -> "TypeError"

\* str(metadata['version']) of a mapping: the value of the last version key
VersionValue(pairs) ==
    pairs[CHOOSE k \in 1..Len(pairs) :
              /\ pairs[k][1] = Version
              /\ \A j \in (k + 1)..Len(pairs) : pairs[j][1] # Version][2]

NoFindings == [raised |-> "", findings |-> <<>>]

\* the version check on a loaded mapping's value
VersionFindings(value) ==
    IF _parse_version(value) = InvalidVersion
    THEN [NoFindings EXCEPT !.findings = <<Finding("error", "Invalid version format", 0, <<value>>)>>]
    ELSE NoFindings

\* lines 222-234 for the loaded value: only yaml.YAMLError is caught, a TypeError raised
\* by the membership test or by the subscript escapes
MetadataFindings(metadata_) ==
    IF metadata_.kind = "error"
    THEN [NoFindings EXCEPT !.findings = <<Finding("error", "Invalid YAML frontmatter", 0, <<>>)>>]
    ELSE IF VersionIn(metadata_) = "TypeError" THEN [NoFindings EXCEPT !.raised = "TypeError"]
    ELSE IF VersionIn(metadata_) = "no" THEN NoFindings
    ELSE IF metadata_.kind # "mapping" THEN [NoFindings EXCEPT !.raised = "TypeError"]
    ELSE VersionFindings(VersionValue(metadata_.pairs))

\* what _validate_metadata appends, and the exception it lets escape ("" for none)
_validate_metadata(content, has_yaml) ==
    IF ~(StartsWith(content, Dashes) /\ has_yaml) THEN NoFindings
    ELSE IF Find(content, Dashes, 3) = -1 THEN NoFindings
    ELSE MetadataFindings(safe_load(Slice(content, 3, Find(content, Dashes, 3))))

----------------------------------------------------------------------------
(* WorkflowValidator: the rules a workflow gets on top *)

TaskTool == <<"T", "a", "s", "k", " ", "t", "o", "o", "l">>
Subagent == <<"s", "u", "b", "a", "g", "e", "n", "t">>
SubagentType == <<"s", "u", "b", "a", "g", "e", "n", "t", "_", "t", "y", "p", "e">>

\* a variant of MentionsTaskTool that wants the phrase and the word together
MentionsBoth(content) == Contains(content, TaskTool) /\ Contains(lower(content), Subagent)

\* the negation of: 'Task tool' not in content and 'subagent' not in content.lower()
MentionsTaskTool(content) == Contains(content, TaskTool) \/ Contains(lower(content), Subagent)

_validate_task_tool_usage(content) ==
    (IF ~MentionsTaskTool(content)
     THEN <<Finding("warning", "Workflow should use Task tool for subagent coordination", 0, <<>>)>>
     ELSE <<>>)
    \o (IF ~Contains(content, SubagentType) /\ Contains(content, TaskTool)
        THEN <<Finding("warning", "Workflow using Task tool should specify subagent_type", 0, <<>>)>>
        ELSE <<>>)

\* the end of the run of ["\s=:] and of [a-z-] that starts at index i
RECURSIVE SepRunEnd(_, _)
SepRunEnd(s, i) ==
    IF i < Len(s) /\ (IsSpace(s[i + 1]) \/ s[i + 1] \in {"\"", "=", ":"})
    THEN SepRunEnd(s, i + 1) ELSE i

RECURSIVE RoleRunEnd(_, _)
RoleRunEnd(s, i) ==
    IF i < Len(s) /\ (IsLowerLetter(s[i + 1]) \/ s[i + 1] = "-")
    THEN RoleRunEnd(s, i + 1) ELSE i

\* re.findall(r'subagent_type["\s=:]+([a-z-]+)', s) from index cur on
RECURSIVE FindRolesFrom(_, _)
FindRolesFrom(s, cur) ==
    LET matchAt(i) == /\ StartsAt(s, SubagentType, i)
                      /\ SepRunEnd(s, i + Len(SubagentType)) > i + Len(SubagentType)
                      /\ RoleRunEnd(s, SepRunEnd(s, i + Len(SubagentType))) >
                             SepRunEnd(s, i + Len(SubagentType))
        hits == {i \in cur..(Len(s) - 1) : matchAt(i)}
    IN  IF hits = {} THEN <<>>
        ELSE LET i == CHOOSE p \in hits : \A q \in hits : p <= q
                 b == SepRunEnd(s, i + Len(SubagentType))
                 e == RoleRunEnd(s, b)
             IN  <<Slice(s, b, e)>> \o FindRolesFrom(s, e)

valid_subagents ==
    {<<"b", "a", "c", "k", "e", "n", "d", "-", "a", "r", "c", "h", "i", "t", "e", "c", "t">>,
     <<"f", "r", "o", "n", "t", "e", "n", "d", "-", "d", "e", "v", "e", "l", "o", "p", "e", "r">>,
     <<"t", "e", "s", "t", "-", "a", "u", "t", "o", "m", "a", "t", "o", "r">>,
     <<"d", "e", "p", "l", "o", "y", "m", "e", "n", "t", "-", "e", "n", "g", "i", "n", "e", "e", "r">>,
     <<"d", "e", "b", "u", "g", "g", "e", "r">>,
     <<"p", "e", "r", "f", "o", "r", "m", "a", "n", "c", "e", "-", "e", "n", "g", "i", "n", "e", "e", "r">>,
     <<"s", "e", "c", "u", "r", "i", "t", "y", "-", "a", "u", "d", "i", "t", "o", "r">>,
     <<"c", "o", "d", "e", "-", "r", "e", "v", "i", "e", "w", "e", "r">>,
     <<"d", "a", "t", "a", "b", "a", "s", "e", "-", "o", "p", "t", "i", "m", "i", "z", "e", "r">>,
     <<"d", "e", "v", "o", "p", "s", "-", "t", "r", "o", "u", "b", "l", "e", "s", "h", "o", "o", "t", "e", "r">>,
     <<"n", "e", "t", "w", "o", "r", "k", "-", "e", "n", "g", "i", "n", "e", "e", "r">>,
     <<"c", "l", "o", "u", "d", "-", "a", "r", "c", "h", "i", "t", "e", "c", "t">>}

_validate_subagent_references(content) ==
    LET unknown == SelectSeq(FindRolesFrom(content, 0), LAMBDA subagent : subagent \notin valid_subagents)
    IN  [k \in 1..Len(unknown) |-> Finding("warning", "Unknown subagent type", 0, <<unknown[k]>>)]

----------------------------------------------------------------------------
(* The validators run on a repository *)

\* self.results after the first five rules
FirstRules(fs, content, lines, command_name) ==
    _validate_structure(content, lines)
    \o _validate_naming(command_name)
    \o _validate_placeholders(content, command_name)
    \o _validate_markdown(content, lines)
    \o _validate_references(fs, content, command_name)

\* self.results with what _validate_metadata did
Collected(results, checked) ==
    [raised |-> checked.raised, results |-> results \o checked.findings]

\* CommandValidator.validate: the findings of the six rules in order; raised names the
\* exception that ends the call, after which nothing is returned
CommandValidator_validate(fs, command_path, has_yaml) ==
    Collected(FirstRules(fs, fs[command_path], splitlines(fs[command_path]), command_path.stem),
              _validate_metadata(fs[command_path], has_yaml))

\* the two workflow rules, reached when super().validate() returned
WorkflowRules(base, content) ==
    IF base.raised # "" THEN base
    ELSE [base EXCEPT !.results = @ \o _validate_task_tool_usage(content)
                                    \o _validate_subagent_references(content)]

\* WorkflowValidator.validate: super().validate() and then the two workflow rules
WorkflowValidator_validate(fs, command_path, has_yaml) ==
    WorkflowRules(CommandValidator_validate(fs, command_path, has_yaml), fs[command_path])

\* longest run of headers in a generated document
MaxHeaders == 3
\* deepest header level in a generated document
MaxLevel == 4

WorkflowsWf == [dir |-> "workflows", stem |-> <<"w", "f">>]
ToolsOk == [dir |-> "tools", stem |-> <<"o", "k">>]
ToolsZz == [dir |-> "tools", stem |-> <<"z", "z">>]
DocPaths == {WorkflowsWf, ToolsOk, ToolsZz}

\* the frontmatter a document starts with: none, or a block of each shape
Fronts ==
    { <<>>,
      <<"-", "-", "-", "\n", "v", "e", "r", "s", "i", "o", "n", ":", " ", "1", ".", "0", ".", "0", "\n", "-", "-", "-", "\n">>,  \* a mapping with a well-formed version
      <<"-", "-", "-", "\n", "v", "e", "r", "s", "i", "o", "n", ":", " ", "1", ".", "0", "\n", "-", "-", "-", "\n">>,  \* a mapping whose version lacks a component
      <<"-", "-", "-", "\n", "t", "a", "g", "s", ":", " ", "x", "\n", "-", "-", "-", "\n">>,  \* a mapping without a version
      <<"-", "-", "-", "\n", "-", "-", "-", "\n">>,  \* an empty block
      <<"-", "-", "-", "\n", "n", "o", "t", "e", "s", "\n", "-", "-", "-", "\n">>,  \* a block that is plain text
      <<"-", "-", "-", "\n", "4", "2", "\n", "-", "-", "-", "\n">>,  \* a block that is a number
      <<"-", "-", "-", "\n", "-", " ", "x", "\n", "-", "-", "-", "\n">>,  \* a block that is a list
      <<"-", "-", "-", "\n", "k", ":", " ", "[", "x", "\n", "-", "-", "-", "\n">>,  \* a block the YAML loader rejects
      <<"-", "-", "-", "\n", "t", "a", "g", "s", ":", " ", "x", "\n">> }  \* a block with no closing delimiter

\* what a workflow says about delegation
PhraseSubagentWord == <<"S", "u", "b", "a", "g", "e", "n", "t", "\n">>

Phrases ==
    { <<>>,
      <<"T", "a", "s", "k", " ", "t", "o", "o", "l", "\n">>,
      PhraseSubagentWord,
      <<"T", "a", "s", "k", " ", "t", "o", "o", "l", " ", "s", "u", "b", "a", "g", "e", "n", "t", "_", "t", "y", "p", "e", ":", " ", "d", "e", "b", "u", "g", "g", "e", "r", "\n">>,
      <<"s", "u", "b", "a", "g", "e", "n", "t", "_", "t", "y", "p", "e", ":", " ", "n", "o", "b", "o", "d", "y", "\n">> }

\* lines that refer to commands: ok always exists, zz in some repositories, qq and pr
\* in none, tmp is a listed path
RefLines ==
    { <<>>,
      <<"s", "e", "e", " ", "/", "o", "k", " ", "\n">>,
      <<"/", "q", "q", "\n">>,
      <<"/", "p", "r", " ", Backtick, "/", "q", "q", Backtick, "\n">>,
      <<"/", "t", "m", "p", "\n">>,
      <<"r", "u", "n", " ", Backtick, "/", "w", "f", Backtick, "\n">>,
      <<"/", "z", "z", "\n">>,
      <<"/", "q", "q", "\n", "/", "q", "q", "\n">> }

\* one header of the given level and a line of text below it
HeaderLines(level) == [i \in 1..level |-> "#"] \o <<" ", "H", "\n", "x", "\n">>

RECURSIVE Headers(_)
Headers(levels) ==
    IF levels = <<>> THEN <<>> ELSE HeaderLines(levels[1]) \o Headers(Tail(levels))

LevelSeqs == UNION {[1..n -> 1..MaxLevel] : n \in 0..MaxHeaders}

SimpleDoc == Headers(<<1>>)

\* documents that vary the frontmatter and the body under one header, and documents
\* that vary the headers
Docs ==
    {front \o SimpleDoc \o phrase \o ref_line :
        front \in Fronts, phrase \in Phrases, ref_line \in RefLines}
    \cup {Headers(levels) \o PhraseSubagentWord : levels \in LevelSeqs}

\* repositories: one of the two documents varies, tools/zz.md exists or not
Repositories ==
    {(WorkflowsWf :> wf) @@ (ToolsOk :> ok) @@ (ToolsZz :> zz) :
        wf \in Docs, ok \in {SimpleDoc}, zz \in {NoFile, SimpleDoc}}
    \cup {(WorkflowsWf :> wf) @@ (ToolsOk :> ok) @@ (ToolsZz :> zz) :
        wf \in {SimpleDoc}, ok \in Docs, zz \in {NoFile, SimpleDoc}}

InitValidate ==
    /\ Idle
    /\ files \in Repositories
    /\ HAS_YAML \in BOOLEAN
    /\ last = NoOp

\* the record of a validate call that ended as run says
Validation(command_path, run) ==
    [NoOp EXCEPT !.op = "validate", !.path = command_path,
                 !.kind = CommandTypeOf(command_path),
                 !.outcome = IF run.raised = "" THEN "returned" ELSE run.raised,
                 !.results = run.results]

\* run_all_tests on one file: a WorkflowValidator for workflows/, a CommandValidator for tools/
validate(command_path) ==
    /\ Exists(files, command_path)
    /\ last' = Validation(command_path,
                          IF command_path.dir = "workflows"
                          THEN WorkflowValidator_validate(files, command_path, HAS_YAML)
                          ELSE CommandValidator_validate(files, command_path, HAS_YAML))
    /\ UNCHANGED <<metadata, storeFile, files, changelog, changelogWritable, now, audit, written,
                   HAS_YAML>>

NextValidate == \E command_path \in DocPaths : validate(command_path)

SpecValidate == InitValidate /\ [][NextValidate]_vars

----------------------------------------------------------------------------
(* Vocabulary of the properties *)

\* s is MAJOR.MINOR.PATCH, three non-empty runs of digits and nothing else
IsSemver(s) == DotParts(s) # InvalidVersion

\* the first differing component decides
LexGE(t, u) ==
    \/ t = u
    \/ \E k \in 1..3 : t[k] > u[k] /\ \A j \in 1..(k - 1) : t[j] = u[j]

EveryComponentGE(t, u) == \A k \in 1..3 : t[k] >= u[k]

History(c) == metadata[1][c].version_history

CurrentVersion(c) == metadata[1][c].current_version

\* every call made so far returned normally
AllCallsSucceeded ==
    \A c \in Names : audit[c].failed = 0 /\ (audit[c].byInit => audit[c].initOk)

\* the 1-based index of the first line that is a '#', a space and a title, or 0
FirstTitle(lines) ==
    LET isTitle(i) == Len(lines[i]) >= 2 /\ lines[i][1] = "#" /\ lines[i][2] = " "
    IN  IF \E i \in 1..Len(lines) : isTitle(i)
        THEN CHOOSE i \in 1..Len(lines) : isTitle(i) /\ \A j \in 1..(i - 1) : ~isTitle(j)
        ELSE 0

IsSectionLine(line) == StartsWith(line, <<"#", "#", " ", "[">>)

\* the "## [command] version - date" line of a changelog entry
SectionHeader(entry) == SplitLines(entry)[2]

----------------------------------------------------------------------------
(* Properties *)

\* C1: a command registered by initialize_command on which n update_version calls were
\* made, all of them successful, has a version history of exactly n + 1 entries, and its
\* current_version is the version of the last history entry.
C1_HistoryCountsUpdates ==
    \A c \in Names :
        (audit[c].byInit /\ audit[c].failed = 0) =>
            /\ c \in DOMAIN metadata[1]
            /\ Len(History(c)) = audit[c].ok + 1
            /\ CurrentVersion(c) = History(c)[Len(History(c))].version

\* a command registered here and updated twice, by major and then by patch
C1_Witness ==
    /\ audit["a"].byInit
    /\ audit["a"].ok = 2
    /\ audit["a"].failed = 0
    /\ CurrentVersion("a") = <<"2", ".", "0", ".", "1">>

\* C2 as claimed: check_compatibility returns true exactly when the registered command's
\* current version is greater than or equal to the required version in every component,
\* and false for an unregistered command.
C2_Componentwise ==
    last.op = "check_compatibility" =>
        IF last.cmd \notin DOMAIN metadata[1] THEN last.outcome = "false"
        ELSE IsSemver(CurrentVersion(last.cmd)) =>
                last.outcome =
                    IF EveryComponentGE(DotParts(CurrentVersion(last.cmd)), DotParts(last.required))
                    THEN "true" ELSE "false"

\* C2 as amended: check_compatibility returns true exactly when the registered command's
\* current version is greater than or equal to the required version in the lexicographic
\* order on (major, minor, patch), and false for an unregistered command.
C2_Lexicographic ==
    last.op = "check_compatibility" =>
        IF last.cmd \notin DOMAIN metadata[1] THEN last.outcome = "false"
        ELSE IsSemver(CurrentVersion(last.cmd)) =>
                last.outcome =
                    IF LexGE(DotParts(CurrentVersion(last.cmd)), DotParts(last.required))
                    THEN "true" ELSE "false"

\* a query answered true although one component of the current version is smaller
C2_Witness ==
    /\ last.op = "check_compatibility"
    /\ last.cmd \in DOMAIN metadata[1]
    /\ IsSemver(CurrentVersion(last.cmd))
    /\ last.outcome = "true"
    /\ ~EveryComponentGE(DotParts(CurrentVersion(last.cmd)), DotParts(last.required))

\* C3: for a version MAJOR.MINOR.PATCH, _increment_version returns (MAJOR+1).0.0 for major,
\* MAJOR.(MINOR+1).0 for minor and MAJOR.MINOR.(PATCH+1) for patch; 1.2.3 gives 2.0.0, 1.3.0
\* and 1.2.4, and 0.0.0 by patch gives 0.0.1.
C3_Increment ==
    (last.op = "_increment_version" /\ IsSemver(last.old_version)) =>
        LET t == DotParts(last.old_version)
        IN  /\ last.kind = "major" => last.new_version = FormatVersion(<<t[1] + 1, 0, 0>>)
            /\ last.kind = "minor" => last.new_version = FormatVersion(<<t[1], t[2] + 1, 0>>)
            /\ last.kind = "patch" => last.new_version = FormatVersion(<<t[1], t[2], t[3] + 1>>)
            /\ last.old_version = <<"1", ".", "2", ".", "3">> =>
                   last.new_version = (CASE last.kind = "major" -> <<"2", ".", "0", ".", "0">>
                                         [] last.kind = "minor" -> <<"1", ".", "3", ".", "0">>
                                         [] last.kind = "patch" -> <<"1", ".", "2", ".", "4">>)
            /\ (last.old_version = <<"0", ".", "0", ".", "0">> /\ last.kind = "patch") =>
                   last.new_version = <<"0", ".", "0", ".", "1">>

\* 1.2.3 incremented by minor
C3_Witness ==
    /\ last.op = "_increment_version"
    /\ last.old_version = <<"1", ".", "2", ".", "3">>
    /\ last.kind = "minor"
    /\ last.new_version = <<"1", ".", "3", ".", "0">>

\* C4: initialize_command on a command that is already registered raises no error and
\* changes nothing: the command keeps its current version and its history length, and the
\* store, the store file, the command files and the changelog stay as they were.
C4_ReinitializeIsNoOp ==
    [][(last'.op = "initialize_command" /\ last'.cmd \in DOMAIN metadata[1]) =>
          /\ last'.outcome = "noop"
          /\ last'.cmd \in DOMAIN metadata'[1]
          /\ metadata'[1][last'.cmd].current_version = metadata[1][last'.cmd].current_version
          /\ Len(metadata'[1][last'.cmd].version_history) =
                 Len(metadata[1][last'.cmd].version_history)
          /\ UNCHANGED <<metadata, storeFile, files, changelog>>]_vars

\* a command registered here, updated, and then initialized again
C4_Witness ==
    /\ last.op = "initialize_command"
    /\ last.outcome = "noop"
    /\ audit[last.cmd].byInit
    /\ Len(History(last.cmd)) = 2

\* C5 as claimed: an initialize_command or update_version call that raises leaves the store
\* file, every command file and the changelog exactly as they were before the call.
C5_FailureLeavesArtifacts ==
    [][(last'.op \in {"initialize_command", "update_version"} /\ last'.outcome = "error") =>
          UNCHANGED <<storeFile, files, changelog>>]_vars

\* C6 as claimed: update_version on a name that is not in the store, or on a command whose
\* stored current version is not MAJOR.MINOR.PATCH, raises and changes nothing: not the
\* in-memory store, the store file, a command file or the changelog.
C6_RejectedBeforeMutation ==
    [][(/\ last'.op = "update_version"
        /\ \/ last'.cmd \notin DOMAIN metadata[1]
           \/ ~IsSemver(metadata[1][last'.cmd].current_version)) =>
          /\ last'.outcome = "error"
          /\ UNCHANGED <<metadata, storeFile, files, changelog>>]_vars

\* C7 as claimed: when every call so far succeeded, the version embedded in the file a
\* command was registered from equals the store's current_version of that command.
C7_FileMatchesStore ==
    AllCallsSucceeded =>
        \A c \in Names :
            audit[c].byInit => EmbeddedVersion(files[audit[c].path]) = CurrentVersion(c)

\* C8 as claimed: after _update_command_file(path, v), on a file of any shape or on the
\* result of an earlier rewrite, the version embedded in the file's leading frontmatter
\* block is v.
C8_RewriteEmbedsVersion ==
    last.op = "_update_command_file" => EmbeddedVersion(files[last.path]) = last.new_version

\* C9: a successful update_version creates a missing changelog as the default title
\* followed by the entry; in an existing changelog it inserts the entry's lines right after
\* the first title line and keeps every earlier line, in order; and the sections written
\* by the updates so far stand newest first, right below the title when there is one.
C9_ChangelogInsertion ==
    /\ [][(last'.op = "update_version" /\ last'.outcome = "ok") =>
             IF changelog = NoFile
             THEN changelog' = ChangelogTitle \o <<"\n">> \o last'.entry
             ELSE LET old == SplitLines(changelog)
                      new == SplitLines(changelog')
                      added == SplitLines(last'.entry)
                      h == FirstTitle(old)
                  IN  IF h > 0
                      THEN new = SubSeq(old, 1, h) \o added \o SubSeq(old, h + 1, Len(old))
                      ELSE \E k \in 0..Len(old) :
                              new = SubSeq(old, 1, k) \o added \o SubSeq(old, k + 1, Len(old))]_vars
    /\ [](written # <<>> =>
             LET lines == SplitLines(changelog)
                 sections == SelectSeq(lines, IsSectionLine)
                 h == FirstTitle(lines)
             IN  /\ Len(sections) >= Len(written)
                 /\ \A k \in 1..Len(written) :
                        sections[k] = SectionHeader(written[Len(written) + 1 - k])
                 /\ h > 0 => lines[h + 1] = <<>> /\ lines[h + 2] = sections[1])

\* two updates written into a changelog that already held a title and an older section
C9_Witness ==
    /\ last.op = "update_version"
    /\ last.outcome = "ok"
    /\ Len(written) = 2
    /\ Contains(changelog, <<"#", "#", " ", "[", "b", "]", " ", "0", ".", "9", ".", "0">>)

\* C10: no step removes a command or changes, reorders or removes a history entry; a step
\* lengthens a history by one entry exactly when it is an accepted update of that command;
\* and a current version that is MAJOR.MINOR.PATCH never decreases.
C10_AppendOnly ==
    [][\A c \in DOMAIN metadata[1] :
          /\ c \in DOMAIN metadata'[1]
          /\ LET before == metadata[1][c].version_history
                 after == metadata'[1][c].version_history
                 accepted == /\ last'.op = "update_version"
                             /\ last'.cmd = c
                             /\ last'.new_version # Invalid
             IN  /\ Len(after) = Len(before) + (IF accepted THEN 1 ELSE 0)
                 /\ SubSeq(after, 1, Len(before)) = before
          /\ IsSemver(metadata[1][c].current_version) =>
                /\ IsSemver(metadata'[1][c].current_version)
                /\ LexGE(DotParts(metadata'[1][c].current_version),
                         DotParts(metadata[1][c].current_version))]_vars

\* the third entry of a history: a second update of a registered command
C10_Witness ==
    /\ last.op = "update_version"
    /\ last.outcome = "ok"
    /\ Len(History(last.cmd)) = 3

\* C11: with two VersionManager objects on one repository, a successful update_version
\* writes the store file from the caller's own in-memory store alone: the file becomes that
\* store (same commands, the other records as the caller last knew them, the updated
\* history being the caller's history plus one entry), whatever the other object saved in
\* between, and the other object's in-memory store is not refreshed. So two updates that
\* both return normally can leave a store file holding only the last writer's update.
C11_LastWriterWins ==
    [][(last'.op = "update_version" /\ last'.outcome = "ok") =>
          LET i == last'.inst
              c == last'.cmd
              mine == metadata[i]
              saved == storeFile'.data
          IN  /\ storeFile'.exists
              /\ saved = metadata'[i]
              /\ DOMAIN saved = DOMAIN mine
              /\ \A d \in DOMAIN mine \ {c} : saved[d] = mine[d]
              /\ Len(saved[c].version_history) = Len(mine[c].version_history) + 1
              /\ SubSeq(saved[c].version_history, 1, Len(mine[c].version_history)) =
                     mine[c].version_history
              /\ \A j \in Instances \ {i} : metadata'[j] = metadata[j]]_vars

\* b was registered by an earlier run; each object updated it once and both calls returned
\* normally, yet the store file holds two history entries instead of three
C11_Witness ==
    /\ last.op = "update_version"
    /\ last.outcome = "ok"
    /\ last.cmd = "b"
    /\ audit["b"].ok = 2
    /\ audit["b"].failed = 0
    /\ \A i \in Instances : Len(metadata[i]["b"].version_history) = 2
    /\ Len(storeFile.data["b"].version_history) = 2
    /\ storeFile.data = metadata[last.inst]

\* the document the last validate call read
Validated == files[last.path]

\* the findings of the last validate call that carry the given message
FindingsOf(message) == SelectSeq(last.results, LAMBDA r : r.message = message)

\* C12 as claimed: validate on a document that begins with the frontmatter delimiter never
\* aborts, whatever the block holds; a block the loader rejects yields exactly one error
\* finding; and for a workflow the findings of the workflow rules come last in the result.
C12_ValidateNeverAborts ==
    (last.op = "validate" /\ StartsWith(Validated, Dashes)) =>
        LET end_index == Find(Validated, Dashes, 3)
            rejected == /\ HAS_YAML
                        /\ end_index # -1
                        /\ safe_load(Slice(Validated, 3, end_index)).kind = "error"
            after == _validate_task_tool_usage(Validated)
                         \o _validate_subagent_references(Validated)
            n == Len(last.results)
        IN  /\ last.outcome = "returned"
            /\ rejected => Len(FindingsOf("Invalid YAML frontmatter")) = 1
            /\ last.kind = "workflow" =>
                  /\ n >= Len(after)
                  /\ SubSeq(last.results, n - Len(after) + 1, n) = after

\* the references the pattern finds in the validated document, without their slash
FoundRefs ==
    [k \in 1..Len(command_refs(Validated)) |-> StripChars(command_refs(Validated)[k], {"/", " "})]

\* C13 as claimed: the "not found" warnings of a validation are, in order, the references
\* found in the document that are not the document's own name, are not an entry of the
\* denylist, and name no file in workflows/ or tools/.
C13_UnresolvedReferencesWarned ==
    (last.op = "validate" /\ last.outcome = "returned") =>
        LET unresolved ==
                SelectSeq(FoundRefs,
                          LAMBDA ref : /\ ref # last.path.stem
                                       /\ (<<"/">> \o ref) \notin exclude_patterns
                                       /\ ~Exists(files, [dir |-> "workflows", stem |-> ref])
                                       /\ ~Exists(files, [dir |-> "tools", stem |-> ref]))
            warned == FindingsOf("Referenced command not found")
        IN  /\ Len(warned) = Len(unresolved)
            /\ \A k \in 1..Len(warned) : warned[k].detail = <<unresolved[k]>>

HasTaskToolWarning ==
    FindingsOf("Workflow should use Task tool for subagent coordination") # <<>>

\* C14 as claimed: a validated workflow gets the "should use Task tool" warning unless it
\* contains both the phrase "Task tool" and the word "subagent" in any case.
C14_WarnedUnlessBoth ==
    (last.op = "validate" /\ last.outcome = "returned" /\ last.kind = "workflow") =>
        (HasTaskToolWarning <=>
            ~(Contains(Validated, TaskTool) /\ Contains(lower(Validated), Subagent)))

\* C14 as amended: a validated workflow gets the "should use Task tool" warning exactly
\* when it contains neither the phrase "Task tool" nor the word "subagent" in any case; a
\* workflow that contains one of the two is not warned.
C14_WarnedWhenNeither ==
    (last.op = "validate" /\ last.outcome = "returned" /\ last.kind = "workflow") =>
        (HasTaskToolWarning <=>
            (~Contains(Validated, TaskTool) /\ ~Contains(lower(Validated), Subagent)))

\* a workflow that says "Subagent" and never "Task tool", validated without the warning
C14_Witness ==
    /\ last.op = "validate"
    /\ last.outcome = "returned"
    /\ last.kind = "workflow"
    /\ Contains(lower(Validated), Subagent)
    /\ ~Contains(Validated, TaskTool)
    /\ ~HasTaskToolWarning

\* the number of '#' a line starts with
LeadingHashes(line) ==
    CHOOSE n \in 0..Len(line) :
        /\ \A k \in 1..n : line[k] = "#"
        /\ n = Len(line) \/ line[n + 1] # "#"

\* the 1-based numbers of the lines of the validated document that start with '#'
HeaderNumbers ==
    {i \in 1..Len(splitlines(Validated)) : StartsWith(splitlines(Validated)[i], <<"#">>)}

\* the headers that are more than one level deeper than the header right before them
JumpNumbers ==
    {h \in HeaderNumbers :
        \E p \in HeaderNumbers :
            /\ p < h
            /\ \A q \in HeaderNumbers : ~(p < q /\ q < h)
            /\ LeadingHashes(splitlines(Validated)[h]) > LeadingHashes(splitlines(Validated)[p]) + 1}

\* C15: the header-hierarchy warnings of a validation are one warning for each header
\* whose level exceeds the level of the header right before it by more than one, in
\* document order, each carrying that header's 1-based line number; the first header and a
\* header at most one level deeper than its predecessor get none.
C15_HeaderJumpsWarned ==
    last.op = "validate" =>
        LET warned == FindingsOf("Header level jumps")
        IN  /\ Len(warned) = Cardinality(JumpNumbers)
            /\ \A k \in 1..Len(warned) :
                  /\ warned[k].level = "warning"
                  /\ warned[k].line_number \in JumpNumbers
                  /\ k > 1 => warned[k - 1].line_number < warned[k].line_number

\* three headers of levels 1, 2 and 4: the third, on line 5, is the only one warned about
C15_Witness ==
    /\ last.op = "validate"
    /\ Cardinality(HeaderNumbers) = 3
    /\ HeaderNumbers = {1, 3, 5}
    /\ LeadingHashes(splitlines(Validated)[3]) = 2
    /\ LeadingHashes(splitlines(Validated)[5]) = 4
    /\ Len(FindingsOf("Header level jumps")) = 1
    /\ FindingsOf("Header level jumps")[1].line_number = 5

\* C16: a successful initialize_command or update_version on a command leaves the record of
\* every other registered command as it was (current version, history, tags, dependencies,
\* timestamps), in the caller's memory and in the store file, and adds or removes no
\* command other than the one it was called on.
C16_OtherCommandsUntouched ==
    [][(/\ last'.op \in {"initialize_command", "update_version"}
        /\ last'.outcome \in {"ok", "noop"}) =>
          LET i == last'.inst
              others == DOMAIN metadata[i] \ {last'.cmd}
              persisted == _load_metadata(storeFile)
          IN  /\ DOMAIN metadata'[i] \ {last'.cmd} = others
              /\ DOMAIN storeFile'.data \ {last'.cmd} = DOMAIN persisted \ {last'.cmd}
              /\ \A b \in others :
                    /\ metadata'[i][b] = metadata[i][b]
                    /\ storeFile'.data[b] = persisted[b]]_vars

\* a is registered and then updated while b, registered by an earlier run, is in the store
C16_Witness ==
    /\ last.op = "update_version"
    /\ last.outcome = "ok"
    /\ last.cmd = "a"
    /\ audit["a"].byInit
    /\ "b" \in DOMAIN metadata[1]
    /\ "b" \in DOMAIN storeFile.data
    /\ Len(History("a")) = 2

====
